---- MODULE Spec2Model ----
(***************************************************************************)
(* The M x N sliding puzzle of project_puzzle (run.cpp, autoMxN.cpp):      *)
(* the solvability test can_solve, the repair reshuffle and the            *)
(* constructive solver autosolve with its helpers move, solve_1x2 and      *)
(* solve_2x1.                                                              *)
(*                                                                         *)
(* A board is the array puzzle[0..M*N-1] of the code, kept here as a       *)
(* sequence of length M*N: puzzle[k] is p[k+1].  The blank is -1.          *)
(* The moves are the characters W (blank up), S (blank down), A (blank     *)
(* left) and D (blank right).                                              *)
(*                                                                         *)
(* The routines of autoMxN.cpp are operators on a record                   *)
(*     [m, n, p, q, ok, ret]                                               *)
(* m, n the size, p the board the routine works on, q the primitive moves  *)
(* it has requested so far, ok false once a requested move was out of the  *)
(* grid and ret true once the routine has returned.  An action of the      *)
(* solver calls one routine on the current board and puts the moves it     *)
(* requests in `queue`; the action Step then applies them to `puzzle` one  *)
(* at a time, so that every intermediate board of the run is a state.      *)
(*                                                                         *)
(* Spec is a run of run_MxN with autosolve; SearchSpec is the breadth-     *)
(* first search of the boards that reach the solved board.                 *)
(***************************************************************************)
EXTENDS Integers, Sequences, FiniteSets, TLC

VARIABLES
    M, N,        \* the size of the grid
    puzzle,      \* the board
    mark,        \* run_MxN: the result of can_solve
    pc,          \* where the program is
    printout,    \* autoMxN.cpp: the global flag
    sol,         \* autosolve: the move log
    step,        \* autosolve: the step count
    queue,       \* the moves the running routine has requested and not yet made
    row_i,       \* autosolve: the row i of the phase
    col_j,       \* autosolve: the column j of the tile loop
    orig,        \* history: the board as shuffled
    loops,       \* history: the iterations of the repair loop of reshuffle
    start,       \* history: the board autosolve was started on
    trace,       \* history: every symbol pushed on sol, in order, never cleared
    nmoves,      \* history: the number of moves made on the board
    heads,       \* history: the boards the current while loop had at its head
    rot,         \* history: the iterations of the final A,W,D,S loop
    frozen,      \* history: the rows finished and checked, as they were then
    skipped,     \* history: the rows whose check failed
    answer,      \* reshuffle: the character read
    spin,        \* history: the current while loop came back to a board
    finisher,    \* history: the rows i that solve_1x2 was called for
    visited,     \* search: the boards found so far
    frontier     \* search: the boards found in the last round

vars == <<M, N, puzzle, mark, pc, printout, sol, step, queue, row_i, col_j,
          orig, loops, start, trace, nmoves, heads, rot, frozen, skipped, answer,
          spin, finisher, visited, frontier>>

BLANK == -1

\* puzzle[k]
Cell(p, k) == p[k + 1]

\* find(M, N, puzzle, v): the index of the cell holding v (linear scan)
find(m, n, p, v) == CHOOSE k \in 0..(m * n - 1) : Cell(p, k) = v

\* the canonical solved board: cell k holds k+1, the last cell the blank
Solved(m, n) == [k \in 1..(m * n) |-> IF k = m * n THEN BLANK ELSE k]

\* the precondition of a primitive move: the blank has a neighbour that way
Feasible(m, n, p, c) ==
    LET b == find(m, n, p, BLANK)
    IN  CASE c = "W" -> b \div n > 0
          [] c = "S" -> b \div n < m - 1
          [] c = "A" -> b % n > 0
          [] OTHER   -> b % n < n - 1

\* change(M, N, puzzle, c): swap the blank with its neighbour in direction c
change(m, n, p, c) ==
    LET b == find(m, n, p, BLANK)
        t == CASE c = "W" -> b - n
               [] c = "S" -> b + n
               [] c = "A" -> b - 1
               [] OTHER   -> b + 1
    IN  [p EXCEPT ![b + 1] = p[t + 1], ![t + 1] = BLANK]

\* a routine's working state on board p
Work(m, n, p) == [m |-> m, n |-> n, p |-> p, q |-> <<>>, ok |-> TRUE, ret |-> FALSE]

\* nothing more is done once a move was out of the grid or the routine has
\* returned
Halted(st) == ~st.ok \/ st.ret

\* one requested move: pre is logged before the move is applied, post after it
Req(c, pre, post) == [mv |-> c, pre |-> pre, post |-> post]

\* the moves of s from the k-th on, applied in order
RECURSIVE ApplyFrom(_, _, _)
ApplyFrom(st, s, k) ==
    IF k > Len(s) \/ Halted(st) THEN st
    ELSE IF Feasible(st.m, st.n, st.p, s[k])
         THEN ApplyFrom([st EXCEPT !.p = change(st.m, st.n, st.p, s[k]),
                                   !.q = Append(st.q, Req(s[k], IF k = 1 THEN s ELSE <<>>, <<>>))],
                        s, k + 1)
         ELSE [st EXCEPT !.q = Append(st.q, Req(s[k], IF k = 1 THEN s ELSE <<>>, <<>>)),
                         !.ok = FALSE]

\* auto_change without the push_back: the move is made and not logged
auto_change_unlogged(st, c) ==
    IF Halted(st) THEN st
    ELSE IF Feasible(st.m, st.n, st.p, c)
         THEN [st EXCEPT !.p = change(st.m, st.n, st.p, c),
                         !.q = Append(st.q, Req(c, <<>>, <<>>))]
         ELSE [st EXCEPT !.q = Append(st.q, Req(c, <<>>, <<>>)), !.ok = FALSE]

\* auto_change: change, then push the move on the log
auto_change(st, c) ==
    IF Halted(st) THEN st
    ELSE IF Feasible(st.m, st.n, st.p, c)
         THEN [st EXCEPT !.p = change(st.m, st.n, st.p, c),
                         !.q = Append(st.q, Req(c, <<>>, <<c>>))]
         ELSE [st EXCEPT !.q = Append(st.q, Req(c, <<>>, <<c>>)), !.ok = FALSE]

\* append without "sol = sol + s": the moves are made and none is logged
append_unlogged(st, s) ==
    LET a == ApplyFrom(st, s, 1)
    IN  [a EXCEPT !.q = [k \in 1..Len(a.q) |-> Req(a.q[k].mv, <<>>, <<>>)]]

\* append: sol = sol + s first, then change for each move of s
append(st, s) == ApplyFrom(st, s, 1)

\* cnt times auto_change(c)
RECURSIVE Times(_, _, _)
Times(st, c, cnt) ==
    IF cnt <= 0 \/ Halted(st) THEN st ELSE Times(auto_change(st, c), c, cnt - 1)

\* cnt times append(s)
RECURSIVE Repeat(_, _, _)
Repeat(st, s, cnt) ==
    IF cnt <= 0 \/ Halted(st) THEN st ELSE Repeat(append(st, s), s, cnt - 1)

\* move_h: the blank to column c
move_h(st, c) ==
    LET d == (find(st.m, st.n, st.p, BLANK) % st.n) - c
    IN  IF d > 0 THEN Times(st, "A", d) ELSE Times(st, "D", -d)

\* move_v: the blank to row r
move_v(st, r) ==
    LET d == (find(st.m, st.n, st.p, BLANK) \div st.n) - r
    IN  IF d > 0 THEN Times(st, "W", d) ELSE Times(st, "S", -d)

\* "if (puzzle[k] == num) return;"
ReturnIf(st, k, num) ==
    IF ~Halted(st) /\ Cell(st.p, k) = num THEN [st EXCEPT !.ret = TRUE] ELSE st

\* back in the caller
Returned(st) == [st EXCEPT !.ret = FALSE]

\* the nudge that always goes over the tile, as on the last row
Nudge_over(m, r, dir) ==
    IF dir THEN <<"W", "D", "D", "S", "A">> ELSE <<"W", "A", "A", "S", "D">>

\* the 5-move nudge that takes the tile one column towards column j
Nudge(m, r, dir) ==
    IF r # m - 1
    THEN (IF dir THEN <<"S", "D", "D", "W", "A">> ELSE <<"S", "A", "A", "W", "D">>)
    ELSE (IF dir THEN <<"W", "D", "D", "S", "A">> ELSE <<"W", "A", "A", "S", "D">>)

\* move, lines 61-76 (c # j): the blank beside the tile and the first step
move_side(st0, num, r, c, i, j) ==
    LET n == st0.n
        dir == c < j
        a1 == ReturnIf(IF find(st0.m, n, st0.p, BLANK) \div n = i
                       THEN auto_change(st0, "S") ELSE st0, i * n + j, num)
        a2 == ReturnIf(move_h(a1, IF dir THEN c + 1 ELSE c - 1), i * n + j, num)
        a3 == ReturnIf(move_v(a2, r), i * n + j, num)
    IN  ReturnIf(auto_change(a3, IF dir THEN "A" ELSE "D"), i * n + j, num)

\* move, lines 61-108 (c # j): the tile to column j
move_col(st0, num, r, c, i, j) ==
    Repeat(move_side(st0, num, r, c, i, j), Nudge(st0.m, r, c < j),
           (IF c < j THEN j - c ELSE c - j) - 1)

\* move, lines 158-162: the D,W,W,A,S nudges k..d_r; the test after each
\* reads puzzle[k*N+j], k the loop counter that shadows the row i
RECURSIVE move_up(_, _, _, _, _)
move_up(st, k, d_r, j, num) ==
    IF k > d_r \/ Halted(st) THEN st
    ELSE move_up(ReturnIf(append(st, <<"D", "W", "W", "A", "S">>), k * st.n + j, num),
                 k + 1, d_r, j, num)

\* move, lines 110-155 (r # i): the blank above the tile
move_above(st, same_c, num, r, c, i, j) ==
    LET RI(s) == ReturnIf(s, i * st.n + j, num)
    IN  IF same_c
        THEN IF r # i + 1
             THEN RI(move_h(RI(move_v(st, r - 1)), c))
             ELSE RI(move_h(RI(move_v(RI(move_h(RI(move_v(st, r + 1)), c + 1)), r - 1)), c))
        ELSE IF c < j
             THEN RI(auto_change(IF r # st.m - 1
                                 THEN RI(append(st, <<"S", "D", "D", "W", "W", "A">>))
                                 ELSE RI(auto_change(RI(auto_change(st, "W")), "D")),
                                 "S"))
             ELSE RI(auto_change(RI(auto_change(st, "W")), "A"))

\* move, lines 110-157: the blank above the tile, then the S of line 157
move_under(st, same_c, num, r, c, i, j) ==
    auto_change(move_above(st, same_c, num, r, c, i, j), "S")

\* move, lines 109-163: the tile up to row i
move_row(st, same_c, num, r, c, i, j) ==
    IF r # i
    THEN move_up(move_under(st, same_c, num, r, c, i, j), 2, r - i, j, num)
    ELSE st

\* move, lines 59-163: the body; ret is set when a "return;" was taken
move_body(st0, r, c, i, j) ==
    move_row(IF c # j
             THEN move_col(st0, Cell(st0.p, r * st0.n + c), r, c, i, j)
             ELSE st0,
             c = j, Cell(st0.p, r * st0.n + c), r, c, i, j)

\* move(r, c, i, j, M, N, puzzle, sol): the tile at (r,c) towards (i,j)
move(st0, r, c, i, j) == Returned(move_body(st0, r, c, i, j))

\* solve_1x2, lines 173-195: tile i*N+N, if above row i+2, pushed down to it
solve_1x2_down(s0, i) ==
    LET n == s0.n
        pos == find(s0.m, n, s0.p, i * n + n)
        r2 == pos \div n
        c2 == pos % n
    IN  IF r2 < i + 2
        THEN Repeat(auto_change(move_v(move_h(move_v(s0, i + 2), c2), r2 + 1), "W"),
                    IF c2 # n - 1 THEN <<"D", "S", "S", "A", "W">>
                                  ELSE <<"A", "S", "S", "D", "W">>,
                    i + 2 - r2 - 1)
        ELSE s0

\* solve_1x2, lines 227-247: tile i*N+N-1, in column N-1, to row i+1
solve_1x2_first_row(s3, same_c, r1, i) ==
    IF r1 # i + 1
    THEN IF r1 = i
         THEN append(IF same_c THEN move_v(move_h(s3, s3.n - 1), r1) ELSE s3,
                     <<"S", "D", "W", "A", "S">>)
         ELSE Repeat(auto_change(auto_change(auto_change(
                         IF same_c THEN move_v(move_h(s3, s3.n - 1), r1) ELSE s3,
                         "W"), "D"), "S"),
                     <<"A", "W", "W", "D", "S">>, r1 - (i + 1) - 1)
    ELSE s3

\* solve_1x2, lines 212-224: after the first A, the nudges to column N-1
solve_1x2_first_nudge(u3, i) ==
    LET n == u3.n
        pos == find(u3.m, n, u3.p, i * n + n - 1)
        r1 == pos \div n
        c1 == pos % n
    IN  solve_1x2_first_row(Repeat(u3, Nudge(u3.m, r1, TRUE), n - 1 - c1), FALSE, r1, i)

\* solve_1x2, lines 205-225
solve_1x2_first_col(s2, r1, c1, i) ==
    IF c1 # s2.n - 1
    THEN solve_1x2_first_nudge(auto_change(move_v(move_h(s2, c1 + 1), r1), "A"), i)
    ELSE solve_1x2_first_row(s2, TRUE, r1, i)

\* solve_1x2, lines 199-247: tile i*N+N-1 to (i+1, N-1)
solve_1x2_first(s1, i) ==
    LET n == s1.n
        pos == find(s1.m, n, s1.p, i * n + n - 1)
        r1 == pos \div n
        c1 == pos % n
        r_b == find(s1.m, n, s1.p, BLANK) \div n
    IN  solve_1x2_first_col(IF r1 = r_b THEN auto_change(s1, "S") ELSE s1, r1, c1, i)

\* solve_1x2, lines 267-301: tile i*N+N to column N-1
solve_1x2_second_col(z0, r2, c2, i) ==
    Repeat(auto_change(
               IF c2 # z0.n - 2
               THEN move_v(move_h(z0, c2 + 1), r2)
               ELSE IF r2 # i + 2
                    THEN move_v(move_h(move_v(z0, r2 - 1), c2 + 1), r2)
                    ELSE move_v(move_h(move_v(move_h(z0, c2 - 1), r2 + 1), c2 + 1), r2),
               "A"),
           Nudge(z0.m, r2, TRUE), z0.n - 1 - c2 - 1)

\* solve_1x2, lines 304-317: tile i*N+N, in column N-1, to row i+2
solve_1x2_second_row(s5, same_c, r2, i) ==
    IF r2 # i + 2
    THEN Repeat(auto_change(auto_change(auto_change(
                    IF same_c THEN move_v(move_h(s5, s5.n - 2), r2) ELSE s5,
                    "W"), "D"), "S"),
                <<"A", "W", "W", "D", "S">>, r2 - (i + 2) - 1)
    ELSE s5

\* solve_1x2, lines 251-318: tile i*N+N to (i+2, N-1), or the 18-move recipe
solve_1x2_second(s4, i) ==
    LET n == s4.n
        temp == find(s4.m, n, s4.p, i * n + n)
        r2 == temp \div n
        c2 == temp % n
        r_b == find(s4.m, n, s4.p, BLANK) \div n
    IN  IF r2 = i /\ c2 = n - 1
        THEN append(move_v(move_h(s4, n - 2), i),
                    <<"D", "S", "A", "W", "D", "S", "S", "A", "W",
                      "W", "D", "S", "S", "A", "W", "D", "S", "A">>)
        ELSE solve_1x2_second_row(
                 IF c2 # n - 1
                 THEN solve_1x2_second_col(IF r2 = r_b THEN auto_change(s4, "S") ELSE s4,
                                           r2, c2, i)
                 ELSE s4,
                 c2 = n - 1, r2, i)

\* solve_1x2, lines 169-170: the blank off row i
solve_1x2_start(st, i) ==
    IF find(st.m, st.n, st.p, BLANK) \div st.n = i THEN auto_change(st, "S") ELSE st

\* solve_1x2(M, N, puzzle, sol, i): the last two cells of row i
solve_1x2(st, i) ==
    append(move_v(move_h(solve_1x2_second(solve_1x2_first(solve_1x2_down(
                             solve_1x2_start(st, i), i), i), i),
                         st.n - 2), i),
           <<"D", "S", "S", "A", "W", "W", "D", "S">>)

\* the loops "while (c != target) { W,A,A,S,D; c-- }" of solve_2x1
RECURSIVE LeftNudges(_, _, _)
LeftNudges(st, c, target) ==
    IF c = target \/ Halted(st) THEN st
    ELSE LeftNudges(append(st, <<"W", "A", "A", "S", "D">>), c - 1, target)

\* solve_2x1, lines 337-347 and 365-375: a tile of the last row from column
\* c to column target
solve_2x1_left(st, c, target) ==
    IF c # target
    THEN LeftNudges(auto_change(move_v(move_h(move_v(st, st.m - 2), c - 1), st.m - 1), "D"),
                    c - 1, target)
    ELSE st

\* solve_2x1, lines 331-347: tile (M-2)*N+i+1 to (M-1, i)
solve_2x1_first(st, i) ==
    LET m == st.m
        n == st.n
        pos1 == find(m, n, st.p, (m - 2) * n + i + 1)
        r1 == pos1 \div n
        c1 == pos1 % n
    IN  solve_2x1_left(IF r1 # m - 1
                       THEN auto_change(move_h(move_v(st, m - 1), c1), "W")
                       ELSE st,
                       c1, i)

\* solve_2x1, lines 349-376: tile (M-1)*N+i+1 to (M-1, i+1), or a recipe
solve_2x1_second(a2, i) ==
    LET m == a2.m
        n == a2.n
        pos2 == find(m, n, a2.p, (m - 1) * n + i + 1)
        r2 == pos2 \div n
        c2 == pos2 % n
    IN  IF r2 = m - 2 /\ c2 = i
        THEN append(move_h(move_v(a2, m - 2), i + 1),
                    <<"A", "S", "D", "D", "W", "A", "S", "A", "W", "D", "S",
                      "D", "W", "A", "S", "D", "W", "A", "A", "S", "D">>)
        ELSE IF r2 = m - 2 /\ c2 = i + 1 /\ Cell(a2.p, (m - 2) * n + i) = BLANK
             THEN append(a2, <<"S", "D", "D", "W", "A", "S", "A", "W", "D", "S",
                               "D", "W", "A", "S", "D", "W", "A", "A", "S", "D">>)
             ELSE solve_2x1_left(
                      IF r2 # m - 1
                      THEN auto_change(move_h(move_v(move_h(a2, i + 1), m - 1), c2), "W")
                      ELSE a2,
                      c2, i + 1)

\* solve_2x1, lines 377-382: the closing S, D
solve_2x1_close(a3, i) ==
    IF Cell(a3.p, (a3.m - 2) * a3.n + i) # (a3.m - 2) * a3.n + i + 1
    THEN auto_change(auto_change(move_h(move_v(a3, a3.m - 2), i), "S"), "D")
    ELSE a3

\* solve_2x1, lines 330-384: the body of the loop for column i
solve_2x1_column(st, i) ==
    solve_2x1_close(solve_2x1_second(solve_2x1_first(st, i), i), i)

\* solve_2x1(M, N, puzzle, sol): columns i..N-3 of the last two rows
RECURSIVE solve_2x1_from(_, _)
solve_2x1_from(st, i) ==
    IF i > st.n - 3 \/ Halted(st) THEN st
    ELSE solve_2x1_from(solve_2x1_column(st, i), i + 1)

solve_2x1(st) == solve_2x1_from(st, 0)

(***************************************************************************)
(* run.cpp                                                                 *)
(***************************************************************************)

\* sum_of_reverse_number: num = !num for every pair i < j of tiles with
\* puzzle[i] > puzzle[j], so the parity of the number of inversions
sum_of_reverse_number(m, n, p) ==
    Cardinality({pr \in (0..(m * n - 1)) \X (0..(m * n - 1)) :
                    /\ pr[1] < pr[2]
                    /\ Cell(p, pr[1]) # BLANK
                    /\ Cell(p, pr[2]) # BLANK
                    /\ Cell(p, pr[1]) > Cell(p, pr[2])}) % 2

\* can_solve with the row of the blank counted from the top
can_solve_top(m, n, p) ==
    LET num == sum_of_reverse_number(m, n, p)
        row == find(m, n, p, BLANK) \div n
    IN  IF n % 2 = 1 THEN num % 2 = 0 ELSE (num + row) % 2 = 0

\* can_solve without the branch for even N
can_solve_odd(m, n, p) == sum_of_reverse_number(m, n, p) % 2 = 0

\* can_solve(M, N, puzzle)
can_solve(m, n, p) ==
    LET num == sum_of_reverse_number(m, n, p)
        row == find(m, n, p, BLANK) \div n
        move_ == (m - 1) - row
    IN  IF n % 2 = 1 THEN num % 2 = 0 ELSE (num + move_) % 2 = 0

\* the swap of the last such pair instead of the first
swap_last(m, n, p) ==
    LET pairs == {i \in 0..(m * n - 2) : Cell(p, i) # BLANK /\ Cell(p, i + 1) # BLANK}
        i == CHOOSE x \in pairs : \A y \in pairs : x >= y
    IN  IF pairs = {} THEN p
        ELSE [p EXCEPT ![i + 1] = p[i + 2], ![i + 2] = p[i + 1]]

\* reshuffle, lines 101-106: swap the first i with puzzle[i] and puzzle[i+1]
\* both tiles
swap_first(m, n, p) ==
    LET pairs == {i \in 0..(m * n - 2) : Cell(p, i) # BLANK /\ Cell(p, i + 1) # BLANK}
        i == CHOOSE x \in pairs : \A y \in pairs : x <= y
    IN  IF pairs = {} THEN p
        ELSE [p EXCEPT ![i + 1] = p[i + 2], ![i + 2] = p[i + 1]]

\* reshuffle, lines 100-115: while (!mark) { swap; mark = can_solve }
RECURSIVE repair(_, _, _, _, _)
repair(m, n, p, mk, cnt) ==
    IF mk THEN [p |-> p, mark |-> mk, loops |-> cnt]
    ELSE LET p1 == swap_first(m, n, p)
         IN  repair(m, n, p1, can_solve(m, n, p1), cnt + 1)

\* reshuffle with the loop as "do { swap; mark = can_solve } while (!mark)"
reshuffle_do(m, n, p, mk, c) ==
    IF c \in {"y", "Y"}
    THEN repair(m, n, swap_first(m, n, p), can_solve(m, n, swap_first(m, n, p)), 1)
    ELSE [p |-> p, mark |-> mk, loops |-> 0]

\* reshuffle(M, N, puzzle, mark) when the user answers c
reshuffle(m, n, p, mk, c) ==
    IF c \in {"y", "Y"} THEN repair(m, n, p, mk, 0)
    ELSE [p |-> p, mark |-> mk, loops |-> 0]

(***************************************************************************)
(* The boards the program is run on                                        *)
(***************************************************************************)

\* grids of at most MaxCells cells are run on every board
MaxCells == 6

\* the sides of those grids
MaxSide == 3

\* t with x put in at place k
InsertAt(t, k, x) == SubSeq(t, 1, k - 1) \o <<x>> \o SubSeq(t, k, Len(t))

\* every arrangement of the elements of S
RECURSIVE Perms(_)
Perms(S) ==
    IF S = {} THEN {<<>>}
    ELSE LET x == CHOOSE y \in S : TRUE
         IN  {InsertAt(tk[1], tk[2], x) :
                 tk \in Perms(S \ {x}) \X (1..Cardinality(S))}

\* every arrangement of the tiles 1..m*n-1 and the blank
AllBoards(m, n) == Perms({BLANK} \cup (1..(m * n - 1)))

SmallGrids == {g \in (2..MaxSide) \X (2..MaxSide) : g[1] * g[2] <= MaxCells}

\* boards of larger grids
Scenarios ==
    { <<3, 3, <<1, 2, 3, 4, 5, 6, 7, 8, BLANK>>>>,
      <<3, 3, <<BLANK, 1, 2, 4, 5, 6, 3, 8, 7>>>>,
      <<3, 3, <<BLANK, 1, 3, 2, 4, 5, 6, 8, 7>>>>,
      <<3, 3, <<8, 1, 3, 4, BLANK, 2, 7, 6, 5>>>>,
      <<4, 3, <<BLANK, 2, 5, 1, 7, 3, 8, 6, 9, 4, 11, 10>>>>,
      <<4, 3, <<3, 7, 10, 9, 6, 11, 4, BLANK, 1, 8, 5, 2>>>>,
      <<4, 3, <<11, 3, 4, 6, 2, 8, 1, 5, 9, 7, 10, BLANK>>>>,
      <<5, 2, <<1, 4, 6, 3, 8, 7, BLANK, 2, 5, 9>>>>,
      <<5, 2, <<5, 4, BLANK, 1, 8, 9, 2, 3, 6, 7>>>>,
      <<5, 3, <<2, 3, 4, 5, 6, 7, 8, 9, 10, 11, 12, 13, 1, 14, BLANK>>>> }

\* random_shuffle: any arrangement
Shuffled ==
    UNION {{<<g[1], g[2], b>> : b \in AllBoards(g[1], g[2])} : g \in SmallGrids}
        \cup Scenarios

(***************************************************************************)
(* run_MxN and autosolve                                                   *)
(***************************************************************************)

\* the characters read from cin: yes, no, anything else
Answers == {"y", "Y", "n", "N", "x"}

\* a row report made without the check of the row
RowDone_any(m, n, p, i) == TRUE

\* row i holds i*N+1 .. i*N+N
RowDone(m, n, p, i) == \A k \in 0..(n - 1) : Cell(p, i * n + k) = i * n + k + 1

\* the step count of a segment: step++ for each printed move, or sol.size()
RECURSIVE CountEach(_)
CountEach(s) == IF s = <<>> THEN 0 ELSE 1 + CountEach(Tail(s))

\* a count of one per segment when nothing is printed
Counted_segments(po, s) ==
    IF po THEN CountEach(s) ELSE IF s = <<>> THEN 0 ELSE 1

\* autosolve, lines 447-456 and 519-527: step++ per printed move, or
\* step += sol.size()
Counted(po, s) == IF po THEN CountEach(s) ELSE Len(s)

Init ==
    /\ \E sh \in Shuffled : M = sh[1] /\ N = sh[2] /\ puzzle = sh[3] /\ orig = sh[3]
    /\ mark = FALSE
    /\ pc = "shuffled"
    /\ printout = TRUE
    /\ sol = <<>>
    /\ step = 0
    /\ queue = <<>>
    /\ row_i = 0
    /\ col_j = 0
    /\ loops = 0
    /\ start = <<>>
    /\ trace = <<>>
    /\ nmoves = 0
    /\ heads = {}
    /\ rot = 0
    /\ frozen = <<>>
    /\ skipped = 0
    /\ answer = ""
    /\ spin = FALSE
    /\ finisher = {}
    /\ visited = {}
    /\ frontier = {}

solver == <<printout, sol, step, queue, row_i, col_j, start, trace, nmoves,
            heads, rot, frozen, skipped, spin, finisher>>
reach == <<visited, frontier>>

\* run_MxN, lines 43-50
CheckSolvable ==
    /\ pc = "shuffled"
    /\ mark' = can_solve(M, N, puzzle)
    /\ pc' = IF mark' THEN "play" ELSE "ask_swap"
    /\ UNCHANGED <<M, N, puzzle, orig, loops, answer, solver, reach>>

\* run_MxN, line 49: reshuffle(M, N, puzzle, mark); mark is passed by value
Reshuffle ==
    /\ pc = "ask_swap"
    /\ \E c \in Answers :
         LET res == reshuffle(M, N, puzzle, mark, c)
         IN  /\ puzzle' = res.p
             /\ loops' = res.loops
             /\ answer' = c
    /\ pc' = "play"
    /\ UNCHANGED <<M, N, mark, orig, solver, reach>>

\* autosolve, lines 388-408: the answer sets printout
StartAutosolve ==
    /\ pc = "play"
    /\ \E c \in Answers : printout' = (c \notin {"n", "N"})
    /\ step' = 0
    /\ start' = puzzle
    /\ row_i' = 0
    /\ pc' = "rows"
    /\ answer' = ""
    /\ UNCHANGED <<M, N, puzzle, mark, orig, loops, sol, queue, col_j, trace,
                   nmoves, heads, rot, frozen, spin, skipped, finisher,
                   reach>>

\* a call of a routine at the head of a while loop: the routine's moves are
\* queued; a board the loop already had at its head means the loop never ends
LoopCall(st) ==
    IF puzzle \in heads
    THEN /\ spin' = TRUE
         /\ UNCHANGED <<pc, queue, heads>>
    ELSE /\ queue' = st.q
         /\ heads' = heads \cup {puzzle}
         /\ UNCHANGED <<pc, spin>>

\* move on the tile num, for the loops "while (puzzle[..] != num)"
MoveTile(num, i, j) ==
    LET pos == find(M, N, puzzle, num)
    IN  move(Work(M, N, puzzle), pos \div N, pos % N, i, j)

\* the next requested move is made (auto_change / append, through change)
Step ==
    /\ queue # <<>>
    /\ LET rq == Head(queue)
       IN  IF Feasible(M, N, puzzle, rq.mv)
           THEN /\ puzzle' = change(M, N, puzzle, rq.mv)
                /\ sol' = sol \o rq.pre \o rq.post
                /\ trace' = trace \o rq.pre \o rq.post
                /\ nmoves' = nmoves + 1
                /\ queue' = Tail(queue)
                /\ UNCHANGED pc
           ELSE /\ pc' = "oob"
                /\ sol' = sol \o rq.pre
                /\ trace' = trace \o rq.pre
                /\ queue' = <<>>
                /\ UNCHANGED <<puzzle, nmoves>>
    /\ UNCHANGED <<M, N, mark, orig, loops, printout, step, row_i, col_j,
                   start, heads, rot, frozen, answer, spin, skipped, finisher,
                   reach>>

\* a row loop that goes on to row M-3
LastRow_lead(m) == m - 3

\* autosolve, line 411: the last row of "for (i = 0; i <= M-4; i++)"
LastRow(m) == m - 4

\* autosolve, line 411: for (i = 0; i <= M-4; i++), and line 464: if (M >= 3)
Rows ==
    /\ pc = "rows"
    /\ IF row_i <= LastRow(M)
       THEN pc' = "tiles" /\ UNCHANGED row_i
       ELSE IF M >= 3
            THEN pc' = "lead_tiles" /\ row_i' = M - 3
            ELSE pc' = "bottom" /\ UNCHANGED row_i
    /\ col_j' = 0
    /\ UNCHANGED <<M, N, puzzle, mark, orig, loops, printout, sol, step, queue,
                   start, trace, nmoves, heads, rot, frozen, answer, spin, skipped,
                   finisher,
                   reach>>

\* autosolve, lines 417-425: the tiles of columns 0..N-3 of row i
Tiles ==
    /\ pc = "tiles"
    /\ ~spin
    /\ queue = <<>>
    /\ col_j <= N - 3
    /\ LET num == row_i * N + col_j + 1
       IN  IF Cell(puzzle, row_i * N + col_j) # num
           THEN LoopCall(MoveTile(num, row_i, col_j)) /\ UNCHANGED col_j
           ELSE col_j' = col_j + 1 /\ heads' = {} /\ UNCHANGED <<pc, queue, spin>>
    /\ UNCHANGED <<M, N, puzzle, mark, orig, loops, printout, sol, step, row_i,
                   start, trace, nmoves, rot, frozen, answer, skipped, finisher,
                   reach>>

\* autosolve, line 428: solve_1x2(M, N, puzzle, sol, i)
FinishRow ==
    /\ pc = "tiles"
    /\ queue = <<>>
    /\ col_j > N - 3
    /\ queue' = solve_1x2(Work(M, N, puzzle), row_i).q
    /\ pc' = "row_check"
    /\ finisher' = finisher \cup {row_i}
    /\ UNCHANGED <<M, N, puzzle, mark, orig, loops, printout, sol, step, row_i,
                   col_j, start, trace, nmoves, heads, rot, frozen, answer,
                   spin, skipped, reach>>

\* autosolve, lines 427-438: the check of the cells (i+1)*N-3 .. (i+1)*N-1 and
\* the A,W,D,S fallback; a k below 0 reads before the array, and the
\* comparison may then come out either way
RowCheck ==
    /\ pc = "row_check"
    /\ queue = <<>>
    /\ \E before \in BOOLEAN :
         LET ks == ((row_i + 1) * N - 3)..((row_i + 1) * N - 1)
             correct == \A k \in ks :
                          IF k < 0 THEN before ELSE Cell(puzzle, k) = k + 1
         IN  queue' = IF correct THEN <<>>
                      ELSE append(Work(M, N, puzzle), <<"A", "W", "D", "S">>).q
    /\ pc' = "row_report"
    /\ UNCHANGED <<M, N, puzzle, mark, orig, loops, printout, sol, step, row_i,
                   col_j, start, trace, nmoves, heads, rot, frozen, answer,
                   spin, skipped, finisher,
                   reach>>

\* autosolve, lines 439-461: the check of row i, the count and the clear
RowReport ==
    /\ pc = "row_report"
    /\ queue = <<>>
    /\ IF RowDone(M, N, puzzle, row_i)
       THEN /\ step' = step + Counted(printout, sol)
            /\ sol' = <<>>
            /\ frozen' = SubSeq(puzzle, 1, (row_i + 1) * N)
            /\ UNCHANGED skipped
       ELSE /\ skipped' = skipped + 1
            /\ UNCHANGED <<step, sol, frozen>>
    /\ row_i' = row_i + 1
    /\ pc' = "rows"
    /\ UNCHANGED <<M, N, puzzle, mark, orig, loops, printout, queue, col_j,
                   start, trace, nmoves, heads, rot, answer, spin, finisher,
                   reach>>

\* autosolve, lines 469-477: the tiles of columns 0..N-3 of row M-3
LeadTiles ==
    /\ pc = "lead_tiles"
    /\ ~spin
    /\ queue = <<>>
    /\ IF col_j < N - 2
       THEN LET num == row_i * N + col_j + 1
            IN  IF Cell(puzzle, row_i * N + col_j) # num
                THEN LoopCall(MoveTile(num, row_i, col_j)) /\ UNCHANGED col_j
                ELSE col_j' = col_j + 1 /\ heads' = {} /\ UNCHANGED <<pc, queue, spin>>
       ELSE pc' = "lead_last" /\ heads' = {} /\ UNCHANGED <<queue, col_j, spin>>
    /\ UNCHANGED <<M, N, puzzle, mark, orig, loops, printout, sol, step, row_i,
                   start, trace, nmoves, rot, frozen, answer, skipped, finisher,
                   reach>>

\* autosolve, lines 478-484: tile (i+1)*N to (i, N-2)
LeadLast ==
    /\ pc = "lead_last"
    /\ ~spin
    /\ queue = <<>>
    /\ LET num == (row_i + 1) * N
       IN  IF Cell(puzzle, row_i * N + N - 2) # num
           THEN LoopCall(MoveTile(num, row_i, N - 2))
           ELSE pc' = "lead_branch" /\ heads' = {} /\ UNCHANGED <<queue, spin>>
    /\ UNCHANGED <<M, N, puzzle, mark, orig, loops, printout, sol, step, row_i,
                   col_j, start, trace, nmoves, rot, frozen, answer, skipped, finisher,
                   reach>>

\* autosolve, lines 485-493: tile (i+1)*N-1 at (M-3, N-1) takes the 24 moves
LeadBranch ==
    /\ pc = "lead_branch"
    /\ LET pos == find(M, N, puzzle, (row_i + 1) * N - 1)
       IN  IF pos \div N = M - 3 /\ pos % N = N - 1
           THEN /\ queue' = append(move_v(move_h(Work(M, N, puzzle), N - 2), M - 2),
                                   <<"W", "D", "S", "S", "A", "W", "D", "S",
                                     "A", "W", "W", "D", "S", "A", "W", "D",
                                     "S", "S", "A", "W", "W", "D", "S", "S">>).q
                /\ pc' = "lead_end"
           ELSE pc' = "lead_pen" /\ UNCHANGED queue
    /\ UNCHANGED <<M, N, puzzle, mark, orig, loops, printout, sol, step, row_i,
                   col_j, start, trace, nmoves, heads, rot, frozen, answer,
                   spin, skipped, finisher,
                   reach>>

\* autosolve, lines 495-504: tile (i+1)*N-1 to (M-2, N-2), the blank to
\* (M-3, N-1), then A, S
LeadPen ==
    /\ pc = "lead_pen"
    /\ ~spin
    /\ queue = <<>>
    /\ LET num == (row_i + 1) * N - 1
       IN  IF Cell(puzzle, (M - 2) * N + N - 2) # num
           THEN LoopCall(MoveTile(num, M - 2, N - 2))
           ELSE /\ queue' = auto_change(auto_change(
                                move_v(move_h(move_v(Work(M, N, puzzle), M - 1), N - 1),
                                       M - 3), "A"), "S").q
                /\ pc' = "lead_end"
                /\ heads' = {}
                /\ UNCHANGED spin
    /\ UNCHANGED <<M, N, puzzle, mark, orig, loops, printout, sol, step, row_i,
                   col_j, start, trace, nmoves, rot, frozen, answer, skipped, finisher,
                   reach>>

\* autosolve, line 506: the end of the block of row M-3
LeadEnd ==
    /\ pc = "lead_end"
    /\ queue = <<>>
    /\ frozen' = IF RowDone(M, N, puzzle, M - 3)
                  THEN SubSeq(puzzle, 1, (M - 2) * N)
                  ELSE frozen
    /\ pc' = "bottom"
    /\ UNCHANGED <<M, N, puzzle, mark, orig, loops, printout, sol, step, queue,
                   row_i, col_j, start, trace, nmoves, heads, rot, answer,
                   spin, skipped, finisher,
                   reach>>

\* autosolve, line 508: solve_2x1(M, N, puzzle, sol)
Bottom ==
    /\ pc = "bottom"
    /\ queue' = solve_2x1(Work(M, N, puzzle)).q
    /\ pc' = "corner"
    /\ UNCHANGED <<M, N, puzzle, mark, orig, loops, printout, sol, step, row_i,
                   col_j, start, trace, nmoves, heads, rot, frozen, answer,
                   spin, skipped, finisher,
                   reach>>

\* autosolve, lines 510-511: the blank to the last cell
Corner ==
    /\ pc = "corner"
    /\ queue = <<>>
    /\ queue' = move_v(move_h(Work(M, N, puzzle), N - 1), M - 1).q
    /\ pc' = "endgame"
    /\ UNCHANGED <<M, N, puzzle, mark, orig, loops, printout, sol, step, row_i,
                   col_j, start, trace, nmoves, heads, rot, frozen, answer,
                   spin, skipped, finisher,
                   reach>>

\* the rotation without its last move: the blank is not brought back
Rotation_open == <<"A", "W", "D">>

\* autosolve, line 513: vector<char> s = {'A','W','D','S'}
Rotation == <<"A", "W", "D", "S">>

\* the condition of the loop of line 512
BlockWrong(m, n, p) ==
    \/ Cell(p, m * n - 2) # m * n - 1
    \/ Cell(p, (m - 1) * n - 1) # (m - 1) * n
    \/ Cell(p, (m - 1) * n - 2) # (m - 1) * n - 1

\* autosolve, lines 512-515: A,W,D,S while the 2x2 block is wrong
Endgame ==
    /\ pc = "endgame"
    /\ ~spin
    /\ queue = <<>>
    /\ IF BlockWrong(M, N, puzzle)
       THEN /\ LoopCall(append(Work(M, N, puzzle), Rotation))
            /\ rot' = IF puzzle \in heads THEN rot ELSE rot + 1
       ELSE pc' = "report" /\ heads' = {} /\ UNCHANGED <<queue, rot, spin>>
    /\ UNCHANGED <<M, N, puzzle, mark, orig, loops, printout, sol, step, row_i,
                   col_j, start, trace, nmoves, frozen, answer, skipped, finisher,
                   reach>>

\* autosolve, lines 519-534: the last count, sol.clear() and return step
Report ==
    /\ pc = "report"
    /\ step' = step + Counted(printout, sol)
    /\ sol' = <<>>
    /\ pc' = "done"
    /\ UNCHANGED <<M, N, puzzle, mark, orig, loops, printout, queue, row_i,
                   col_j, start, trace, nmoves, heads, rot, frozen, answer,
                   spin, skipped, finisher,
                   reach>>

Next ==
    \/ CheckSolvable
    \/ Reshuffle
    \/ StartAutosolve
    \/ Step
    \/ Rows
    \/ Tiles
    \/ FinishRow
    \/ RowCheck
    \/ RowReport
    \/ LeadTiles
    \/ LeadLast
    \/ LeadBranch
    \/ LeadPen
    \/ LeadEnd
    \/ Bottom
    \/ Corner
    \/ Endgame
    \/ Report

Spec == Init /\ [][Next]_vars

(***************************************************************************)
(* Properties of autosolve and reshuffle                                   *)
(***************************************************************************)

\* the board after the moves of s are made on p one at a time; <<>> when a
\* move of s cannot be made
RECURSIVE Replay(_, _, _, _)
Replay(m, n, p, s) ==
    IF s = <<>> THEN p
    ELSE IF Feasible(m, n, p, Head(s))
         THEN Replay(m, n, change(m, n, p, Head(s)), Tail(s))
         ELSE <<>>

\* autosolve was started on a solvable board
SolvableRun == start # <<>> /\ can_solve(M, N, start)

\* C1: on a solvable board every while loop of autosolve ends: no loop comes
\* back to a board it already had at its head (its body is a function of the
\* board, so a repeated board repeats for ever)
C1_LoopsEnd == SolvableRun => ~spin

\* C2: when autosolve returns after a start on a solvable board, the board is
\* the solved board
C2_ReturnsSolved == (SolvableRun /\ pc = "done") => puzzle = Solved(M, N)

\* cell i and cell i+1 are the first row-major pair without the blank
FirstPair(p, i) ==
    /\ Cell(p, i) # BLANK
    /\ Cell(p, i + 1) # BLANK
    /\ \A j \in 0..(i - 1) : Cell(p, j) = BLANK \/ Cell(p, j + 1) = BLANK

\* C4: reshuffle answered y or Y on an unsolvable board runs its loop once,
\* swaps the first pair of consecutive cells without the blank, leaves a
\* board can_solve accepts, and changes exactly those two cells
C4_RepairOnce ==
    (pc = "play" /\ answer \in {"y", "Y"} /\ ~can_solve(M, N, orig)) =>
        /\ loops = 1
        /\ can_solve(M, N, puzzle)
        /\ \E i \in 0..(M * N - 2) :
             /\ FirstPair(orig, i)
             /\ Cell(puzzle, i) = Cell(orig, i + 1)
             /\ Cell(puzzle, i + 1) = Cell(orig, i)
             /\ {k \in 0..(M * N - 1) : Cell(puzzle, k) # Cell(orig, k)} = {i, i + 1}

\* C4: a repaired 3x2 board whose first pair is not the cells 0 and 1
C4_Witness ==
    /\ pc = "play"
    /\ answer = "Y"
    /\ ~can_solve(M, N, orig)
    /\ M = 3 /\ N = 2
    /\ Cell(orig, 1) = BLANK
    /\ Cell(puzzle, 2) = Cell(orig, 3)
    /\ loops = 1

\* C5: on a solvable board, the rows that were finished and checked stay as
\* they were in every later state
C5_FinishedRowsKept == SolvableRun => SubSeq(puzzle, 1, Len(frozen)) = frozen

\* C6: on a solvable board, every move autosolve requests can be made: the
\* blank never has to leave the grid
C6_MovesFeasible ==
    SolvableRun =>
        /\ pc # "oob"
        /\ queue # <<>> => Feasible(M, N, puzzle, Head(queue).mv)

\* C7, as stated: the log autosolve hands back, replayed on the board it was
\* started on, gives the board it ends with
C7_ReturnedLogReplays ==
    (SolvableRun /\ pc = "done") => Replay(M, N, start, sol) = puzzle

\* C7, amended: the moves autosolve logged during the run, in order, replayed
\* on the board it was started on, give the board it ends with; the log it
\* hands back is empty
C7_LoggedMovesReplay ==
    (SolvableRun /\ pc = "done") =>
        /\ Replay(M, N, start, trace) = puzzle
        /\ sol = <<>>

\* C7: a run on a 4x3 board that returned the solved board after moves
C7_Witness ==
    /\ SolvableRun
    /\ pc = "done"
    /\ M = 4 /\ N = 3
    /\ Len(trace) > 20
    /\ sol = <<>>
    /\ puzzle = Solved(4, 3)

\* C8: the returned step count is the number of moves made on the board, each
\* counted once, also when a row's check failed and its segment stayed in the
\* log; and every count is the same with and without printout
C8_StepCount ==
    /\ pc = "done" => step = nmoves /\ step = Len(trace)
    /\ pc \in {"row_report", "report"} =>
          Counted(TRUE, sol) = Counted(FALSE, sol)

\* C8: a run without printout that returned after a row's check failed
C8_Witness ==
    /\ pc = "done"
    /\ ~printout
    /\ skipped > 0
    /\ step > 0

\* C9: on the solved 3x3 board autosolve makes no move, logs nothing, leaves
\* the board alone and returns 0
C9_SolvedNoMoves ==
    (M = 3 /\ N = 3 /\ start = Solved(3, 3)) =>
        /\ nmoves = 0
        /\ trace = <<>>
        /\ puzzle = start
        /\ pc = "done" => step = 0

\* every cell outside the bottom-right 2x2 block holds its final value
OutsideFinal(m, n, p) ==
    \A k \in 0..(m * n - 1) :
        k \notin {(m - 1) * n - 2, (m - 1) * n - 1, m * n - 2, m * n - 1} =>
            Cell(p, k) = k + 1

\* C10: with a solvable board whose cells outside the bottom-right 2x2 block
\* are final, the A,W,D,S loop runs at most twice and leaves the solved
\* board; on a solvable 2x2 board autosolve makes only the moves of the blank
\* to the corner and at most two rotations
C10_Endgame ==
    /\ (/\ start # <<>>
        /\ pc \in {"endgame", "report", "done"}
        /\ can_solve(M, N, puzzle)
        /\ OutsideFinal(M, N, puzzle)) =>
           /\ rot <= 2
           /\ ~spin
           /\ pc # "endgame" => puzzle = Solved(M, N)
    /\ (M = 2 /\ N = 2 /\ SolvableRun) =>
           /\ pc # "oob"
           /\ ~spin
           /\ rot <= 2
           /\ \E k \in 0..2 :
                /\ k <= Len(trace)
                /\ SubSeq(trace, 1, k) \in {<<>>, <<"D">>, <<"S">>, <<"D", "S">>}
                /\ Len(trace) <= k + 4 * rot
                /\ \A i \in 1..(Len(trace) - k) :
                     trace[k + i] = <<"A", "W", "D", "S">>[((i - 1) % 4) + 1]

\* C10: a 2x2 run that returned after the corner move and two rotations
C10_Witness ==
    /\ SolvableRun
    /\ pc = "done"
    /\ M = 2 /\ N = 2
    /\ rot = 2
    /\ Len(trace) = 10
    /\ puzzle = Solved(2, 2)

(***************************************************************************)
(* Reachability of the solved board by single blank moves, breadth first   *)
(***************************************************************************)

\* the grids searched have at most this many cells
SearchCells == 9

SearchGrids == {g \in (2..4) \X (2..4) : g[1] * g[2] <= SearchCells}

Moves == {"W", "A", "S", "D"}

\* the move that undoes c
Opposite(c) ==
    CASE c = "W" -> "S"
      [] c = "S" -> "W"
      [] c = "A" -> "D"
      [] c = "D" -> "A"

\* the boards one legal blank move away from a board of S
Neighbors(m, n, S) ==
    {change(m, n, x[1], x[2]) :
        x \in {y \in S \X Moves : Feasible(m, n, y[1], y[2])}}

SearchInit ==
    /\ \E g \in SearchGrids :
         /\ M = g[1]
         /\ N = g[2]
         /\ puzzle = Solved(g[1], g[2])
         /\ orig = Solved(g[1], g[2])
         /\ visited = {Solved(g[1], g[2])}
         /\ frontier = {Solved(g[1], g[2])}
    /\ pc = "search"
    /\ mark = FALSE
    /\ printout = TRUE
    /\ sol = <<>>
    /\ step = 0
    /\ queue = <<>>
    /\ row_i = 0
    /\ col_j = 0
    /\ loops = 0
    /\ start = <<>>
    /\ trace = <<>>
    /\ nmoves = 0
    /\ heads = {}
    /\ rot = 0
    /\ frozen = <<>>
    /\ skipped = 0
    /\ answer = ""
    /\ spin = FALSE
    /\ finisher = {}

\* one round: the boards one move away from the last round's boards
Expand ==
    /\ pc = "search"
    /\ frontier # {}
    /\ frontier' = Neighbors(M, N, frontier) \ visited
    /\ visited' = visited \cup frontier'
    /\ UNCHANGED <<M, N, puzzle, mark, pc, orig, loops, answer, solver>>

\* no new board: the search is over
Finish ==
    /\ pc = "search"
    /\ frontier = {}
    /\ pc' = "searched"
    /\ UNCHANGED <<M, N, puzzle, mark, orig, loops, answer, solver, reach>>

SearchNext ==
    \/ Expand
    \/ Finish

SearchSpec == SearchInit /\ [][SearchNext]_vars

\* C3: on every board of a searched grid, can_solve is true exactly when the
\* solved board is reachable by legal single blank moves; every move of the
\* search is undone by the opposite move, so reachable from the solved board
\* and reaching the solved board are the same
C3_CanSolveIsReachability ==
    /\ \A b \in frontier : \A c \in Moves :
          Feasible(M, N, b, c) =>
              /\ Feasible(M, N, change(M, N, b, c), Opposite(c))
              /\ change(M, N, change(M, N, b, c), Opposite(c)) = b
    /\ \A b \in frontier : can_solve(M, N, b)
    /\ pc = "searched" =>
          \A b \in AllBoards(M, N) : can_solve(M, N, b) <=> b \in visited

\* C3: the search of the 2x3 grid is over, with a board on either side
C3_Witness ==
    /\ pc = "searched"
    /\ M = 2 /\ N = 3
    /\ <<BLANK, 1, 2, 4, 5, 3>> \in visited
    /\ can_solve(2, 3, <<BLANK, 1, 2, 4, 5, 3>>)
    /\ <<1, 2, 3, 5, 4, BLANK>> \notin visited
    /\ ~can_solve(2, 3, <<1, 2, 3, 5, 4, BLANK>>)

\* C11: the board handed on to the play stage after can_solve and reshuffle
\* is solvable, whatever the answer to "Swap to solvable?"
C11_PlayOnSolvable == pc = "play" => can_solve(M, N, puzzle)

\* the call "move(r, c, i, j)" that the tile loop at this state makes next,
\* as <<num, i, j>> (the tile and its target), or <<>> at any other place
CallAt ==
    IF (pc = "tiles" /\ col_j <= N - 3) \/ (pc = "lead_tiles" /\ col_j < N - 2)
    THEN <<row_i * N + col_j + 1, row_i, col_j>>
    ELSE IF pc = "lead_last" THEN <<(row_i + 1) * N, row_i, N - 2>>
    ELSE IF pc = "lead_pen" THEN <<(row_i + 1) * N - 1, M - 2, N - 2>>
    ELSE <<>>

\* a tile loop is at its head and calls move
AtCall ==
    /\ queue = <<>>
    /\ ~spin
    /\ CallAt # <<>>
    /\ Cell(puzzle, CallAt[2] * N + CallAt[3]) # CallAt[1]

\* the cells before cell len, in row-major order, hold their final values
Final(p, len) == \A k \in 1..len : p[k] = k

\* the boards after each of the moves of q made on p keep those cells
RECURSIVE FrameKept(_, _, _, _, _)
FrameKept(m, n, p, q, len) ==
    \/ q = <<>>
    \/ ~Feasible(m, n, p, Head(q).mv)
    \/ /\ Final(change(m, n, p, Head(q).mv), len)
       /\ FrameKept(m, n, change(m, n, p, Head(q).mv), Tail(q), len)

(***************************************************************************)
(* The calls of move taken one at a time: the board at the call has its    *)
(* finished cells in place, and the tile and the blank anywhere behind     *)
(* them.  move reads the board only through find(-1) and through           *)
(* comparisons with num, so the other tiles are laid out in increasing     *)
(* order.                                                                  *)
(***************************************************************************)
MoveSide == 4
MoveCells == 16
MoveGrids == {g \in (3..MoveSide) \X (2..MoveSide) : g[1] * g[2] <= MoveCells}

\* the places of autosolve that call move on an m x n grid, as <<pc, i, j>>
Sites(m, n) ==
    {<<"tiles", i, j>> : i \in 0..(m - 4), j \in 0..(n - 3)}
        \cup {<<"lead_tiles", m - 3, j>> : j \in 0..(n - 3)}
        \cup {<<"lead_last", m - 3, n - 2>>}

\* the tile that the call of site s moves
SiteNum(n, s) == IF s[1] = "lead_last" THEN (s[2] + 1) * n ELSE s[2] * n + s[3] + 1

\* the board with its first len cells final, num in cell tp, the blank in
\* cell bp and the other tiles in increasing order
Laid(m, n, len, num, tp, bp) ==
    LET rest == ((len + 1)..(m * n - 1)) \ {num}
        free(k) == Cardinality({x \in len..k : x \notin {tp, bp}})
    IN  [k \in 0..(m * n - 1) |->
            IF k < len THEN k + 1
            ELSE IF k = tp THEN num
            ELSE IF k = bp THEN BLANK
            ELSE CHOOSE v \in rest : Cardinality({w \in rest : w <= v}) = free(k)]

\* Laid as a board
LaidBoard(m, n, len, num, tp, bp) ==
    [k \in 1..(m * n) |-> Laid(m, n, len, num, tp, bp)[k - 1]]

MoveInit ==
    /\ \E g \in MoveGrids :
         \E s \in Sites(g[1], g[2]) :
           \E tp, bp \in (s[2] * g[2] + s[3])..(g[1] * g[2] - 1) :
             /\ tp # bp
             /\ tp # s[2] * g[2] + s[3]
             /\ M = g[1]
             /\ N = g[2]
             /\ pc = s[1]
             /\ row_i = s[2]
             /\ col_j = s[3]
             /\ puzzle = LaidBoard(g[1], g[2], s[2] * g[2] + s[3],
                                   SiteNum(g[2], s), tp, bp)
             /\ orig = LaidBoard(g[1], g[2], s[2] * g[2] + s[3],
                                 SiteNum(g[2], s), tp, bp)
    /\ mark = FALSE
    /\ printout = TRUE
    /\ sol = <<>>
    /\ step = 0
    /\ queue = <<>>
    /\ loops = 0
    /\ start = <<>>
    /\ trace = <<>>
    /\ nmoves = 0
    /\ heads = {}
    /\ rot = 0
    /\ frozen = <<>>
    /\ skipped = 0
    /\ answer = ""
    /\ spin = FALSE
    /\ finisher = {}
    /\ visited = {}
    /\ frontier = {}

\* the call is made; its moves are then taken by Step
Call ==
    /\ AtCall
    /\ queue' = MoveTile(CallAt[1], CallAt[2], CallAt[3]).q
    /\ pc' = "call"
    /\ UNCHANGED <<M, N, puzzle, mark, orig, loops, printout, sol, step, row_i,
                   col_j, start, trace, nmoves, heads, rot, frozen, answer,
                   spin, skipped, finisher,
                   reach>>

MoveNext ==
    \/ Call
    \/ Step

MoveSpec == MoveInit /\ [][MoveNext]_vars

\* C12: a call move(r, c, i, j) of autosolve made while rows 0..i-1 and the
\* cells (i, 0..j-1) hold their final values changes none of these cells, at
\* any of its moves: not in the moves the call asks for, and not on any
\* board on the way
C12_MoveFrame ==
    /\ (AtCall /\ Final(puzzle, CallAt[2] * N + CallAt[3]))
           => FrameKept(M, N, puzzle,
                        MoveTile(CallAt[1], CallAt[2], CallAt[3]).q,
                        CallAt[2] * N + CallAt[3])
    /\ pc = "call" => Final(puzzle, row_i * N + col_j)

\* a call that started with the blank on row i, below a finished row, has
\* made its moves and put the tile in its cell
C12_Witness ==
    /\ pc = "call"
    /\ queue = <<>>
    /\ nmoves > 0
    /\ row_i >= 1
    /\ find(M, N, orig, BLANK) \div N = row_i
    /\ col_j >= 1
    /\ Cell(puzzle, row_i * N + col_j) = row_i * N + col_j + 1
    /\ Final(puzzle, row_i * N + col_j)

\* the number of cells, in row-major order, that are finished when the tile
\* loop at this state runs
Region ==
    IF pc = "lead_pen" THEN (M - 3) * N + N - 2 ELSE CallAt[2] * N + CallAt[3]

\* C13: at the head of a tile loop "while (puzzle[i*N+j] != num) move(...)",
\* with the finished cells in place, in a run started on a solvable board,
\* the call of move makes all its moves and the loop has not had this board
\* at its head before, so that the loop ends with the tile in its cell
C13_TileLoopEnds ==
    (SolvableRun /\ AtCall /\ Final(puzzle, Region))
        => /\ MoveTile(CallAt[1], CallAt[2], CallAt[3]).ok
           /\ puzzle \notin heads

\* autosolve is about to call solve_1x2 for row row_i
AtFinishRow == pc = "tiles" /\ queue = <<>> /\ col_j > N - 3

\* C14: solve_1x2(i), called in a run started on a solvable board with rows
\* 0..i-1 and the cells (i, 0..N-3) final, makes all its moves, leaves these
\* cells as they were on every board on the way, and returns with
\* i*N+N-1 in (i, N-2) and i*N+N in (i, N-1), so that the check of lines
\* 429-434 finds the row correct
C14_RowFinisher ==
    (SolvableRun /\ AtFinishRow /\ Final(puzzle, (row_i + 1) * N - 2))
        => /\ solve_1x2(Work(M, N, puzzle), row_i).ok
           /\ Final(solve_1x2(Work(M, N, puzzle), row_i).p, (row_i + 1) * N)
           /\ FrameKept(M, N, puzzle, solve_1x2(Work(M, N, puzzle), row_i).q,
                        (row_i + 1) * N - 2)

\* the rows above row m-2 and the columns 0..i-1 of the last two rows of p
\* hold their final values
BottomFinal(m, n, p, i) ==
    /\ Final(p, (m - 2) * n)
    /\ \A k \in 0..(i - 1) :
         /\ Cell(p, (m - 2) * n + k) = (m - 2) * n + k + 1
         /\ Cell(p, (m - 1) * n + k) = (m - 1) * n + k + 1

\* from iteration i of solve_2x1 on, each iteration that starts with the
\* finished cells in place makes all its moves and ends with column i of the
\* last two rows final too
RECURSIVE ColumnsPlaced(_, _)
ColumnsPlaced(st, i) ==
    \/ i > st.n - 3
    \/ Halted(st)
    \/ /\ BottomFinal(st.m, st.n, st.p, i)
             => /\ solve_2x1_column(st, i).ok
                /\ BottomFinal(st.m, st.n, solve_2x1_column(st, i).p, i + 1)
       /\ ColumnsPlaced(solve_2x1_column(st, i), i + 1)

\* C15: in solve_2x1, called in a run started on a solvable board, every
\* iteration i that starts with the rows above M-2 and the columns 0..i-1 of
\* rows M-2 and M-1 final ends with (M-2)*N+i+1 in (M-2, i) and (M-1)*N+i+1
\* in (M-1, i), and with the cells that were final still final
C15_BottomColumns ==
    (SolvableRun /\ pc = "bottom") => ColumnsPlaced(Work(M, N, puzzle), 0)

\* the block of row M-3 has made its moves, and it was entered with no row
\* skipped and rows 0..M-4 final (frozen is the board of the last row report)
LeadInDone ==
    /\ pc = "lead_end"
    /\ queue = <<>>
    /\ skipped = 0
    /\ Len(frozen) = (M - 3) * N
    /\ Final(frozen, (M - 3) * N)

\* C16: when the "if (M >= 3)" block of autosolve finishes, in a run started
\* on a solvable board and with rows 0..M-4 final at its start, rows 0..M-3
\* hold their final values
C16_LeadIn == (SolvableRun /\ LeadInDone) => Final(puzzle, (M - 2) * N)

\* the block of row M-3 is over
AfterLeadIn == pc \in {"bottom", "corner", "endgame", "report", "done"}

\* C17 as stated: in every run of autosolve with M >= 3, once the block of
\* row M-3 is over, solve_1x2 has been called with i = M-3
C17_LeadInByFinisher == (M >= 3 /\ AfterLeadIn) => (M - 3) \in finisher

\* C17: solve_1x2 is called for the rows 0..M-4 only, each of them before
\* the block of row M-3 starts; the last two columns of row M-3 are placed by
\* the block's own code (lines 478-504)
C17_FinisherRows ==
    /\ finisher \subseteq 0..(M - 4)
    /\ pc \in {"lead_tiles", "lead_last", "lead_branch", "lead_pen", "lead_end"}
           => (row_i = M - 3 /\ finisher = 0..(M - 4))

\* a run on a 4-row board has finished row 0 by solve_1x2 and row 1 = M-3,
\* last two columns included, without it
C17_Witness ==
    /\ M = 4
    /\ pc = "lead_end"
    /\ queue = <<>>
    /\ finisher = {0}
    /\ Final(puzzle, (M - 2) * N)
    /\ ~Final(start, (M - 2) * N - 2)

\* the body of the call of move that the tile loop at this state makes
CallBody ==
    move_body(Work(M, N, puzzle), find(M, N, puzzle, CallAt[1]) \div N,
              find(M, N, puzzle, CallAt[1]) % N, CallAt[2], CallAt[3])

\* C18: a call of move, in a run started on a solvable board, takes one of
\* its "return;" statements only on a board whose target cell (i,j) holds
\* the tile
C18_EarlyReturnPlaced ==
    (SolvableRun /\ AtCall /\ CallBody.ret)
        => Cell(CallBody.p, CallAt[2] * N + CallAt[3]) = CallAt[1]

\* from board p to board q the tile num has stayed in its row and gone one
\* column towards column j
ColumnStep(m, n, p, q, num, j) ==
    /\ find(m, n, q, num) \div n = find(m, n, p, num) \div n
    /\ \/ /\ find(m, n, p, num) % n < j
          /\ find(m, n, q, num) % n = (find(m, n, p, num) % n) + 1
       \/ /\ find(m, n, p, num) % n > j
          /\ find(m, n, q, num) % n = (find(m, n, p, num) % n) - 1

\* from board p to board q the tile num has stayed in its column and gone
\* one row up towards row i
RowStep(m, n, p, q, num, i) ==
    /\ find(m, n, q, num) % n = find(m, n, p, num) % n
    /\ find(m, n, p, num) \div n > i
    /\ find(m, n, q, num) \div n = (find(m, n, p, num) \div n) - 1

\* move, lines 77-107: each of the cnt nudges s that is made whole takes the
\* tile one column on
RECURSIVE ColumnNudges(_, _, _, _, _)
ColumnNudges(st, s, cnt, num, j) ==
    \/ cnt <= 0
    \/ Halted(st)
    \/ /\ append(st, s).ok => ColumnStep(st.m, st.n, st.p, append(st, s).p, num, j)
       /\ ColumnNudges(append(st, s), s, cnt - 1, num, j)

\* move, lines 158-162: each of the nudges D,W,W,A,S k..d_r that is made
\* whole takes the tile one row up
RECURSIVE RowNudges(_, _, _, _, _, _)
RowNudges(st, k, d_r, i, j, num) ==
    \/ k > d_r
    \/ Halted(st)
    \/ /\ append(st, <<"D", "W", "W", "A", "S">>).ok
             => RowStep(st.m, st.n, st.p, append(st, <<"D", "W", "W", "A", "S">>).p,
                        num, i)
       /\ RowNudges(ReturnIf(append(st, <<"D", "W", "W", "A", "S">>), k * st.n + j, num),
                    k + 1, d_r, i, j, num)

\* the nudges of the call move(r, c, i, j) for the tile num on board p
NudgesStep(m, n, p, num, r, c, i, j) ==
    /\ c # j => ColumnNudges(move_side(Work(m, n, p), num, r, c, i, j),
                             Nudge(m, r, c < j),
                             (IF c < j THEN j - c ELSE c - j) - 1, num, j)
    /\ r # i => RowNudges(move_under(IF c # j
                                     THEN move_col(Work(m, n, p), num, r, c, i, j)
                                     ELSE Work(m, n, p),
                                     c = j, num, r, c, i, j),
                          2, r - i, i, j, num)

\* C19: in a call of move, in a run started on a solvable board, every
\* 5-move horizontal nudge takes the tile exactly one column towards column j
\* in its row, and every nudge D,W,W,A,S takes it exactly one row up towards
\* row i in its column
C19_NudgeStep ==
    (SolvableRun /\ AtCall)
        => NudgesStep(M, N, puzzle, CallAt[1],
                      find(M, N, puzzle, CallAt[1]) \div N,
                      find(M, N, puzzle, CallAt[1]) % N, CallAt[2], CallAt[3])

(***************************************************************************)
(* Play: any board, solvable or not, with the result of can_solve on it,   *)
(* and then single moves of the blank within the grid.                     *)
(***************************************************************************)
PlayCells == 8
PlayMoves == 1
PlayGrids == {g \in (2..4) \X (2..4) : g[1] * g[2] <= PlayCells}

PlayInit ==
    /\ \E g \in PlayGrids :
         \E b \in AllBoards(g[1], g[2]) :
           /\ M = g[1]
           /\ N = g[2]
           /\ puzzle = b
           /\ mark = can_solve(g[1], g[2], b)
    /\ pc = "moving"
    /\ orig = <<>>
    /\ printout = TRUE
    /\ sol = <<>>
    /\ step = 0
    /\ queue = <<>>
    /\ row_i = 0
    /\ col_j = 0
    /\ loops = 0
    /\ start = <<>>
    /\ trace = <<>>
    /\ nmoves = 0
    /\ heads = {}
    /\ rot = 0
    /\ frozen = <<>>
    /\ skipped = 0
    /\ answer = ""
    /\ spin = FALSE
    /\ finisher = {}
    /\ visited = {}
    /\ frontier = {}

\* one move of the blank within the grid
PlayMove ==
    /\ pc = "moving"
    /\ nmoves < PlayMoves
    /\ \E c \in Moves :
         /\ Feasible(M, N, puzzle, c)
         /\ puzzle' = change(M, N, puzzle, c)
         /\ trace' = <<c>>
    /\ nmoves' = nmoves + 1
    /\ UNCHANGED <<M, N, mark, pc, orig, loops, printout, sol, step, queue,
                   row_i, col_j, start, heads, rot, frozen, answer, spin,
                   skipped, finisher, reach>>

PlayNext == PlayMove

PlaySpec == PlayInit /\ [][PlayNext]_vars

\* C20: can_solve gives the same value before and after every move of the
\* blank within the grid, on every board, for odd and for even N
C20_MoveKeepsCanSolve ==
    pc = "moving" => can_solve(M, N, puzzle) = mark

\* an unsolvable board of even width after a vertical move, and can_solve
\* still false
C20_Witness ==
    /\ pc = "moving"
    /\ nmoves > 0
    /\ N % 2 = 0
    /\ trace = <<"W">>
    /\ ~mark
    /\ ~can_solve(M, N, puzzle)

\* autosolve, lines 429-434: the indices k that the check of the last cells
\* of row i reads (the first of them is always read)
RowCheckReads(n, i) == ((i + 1) * n - 3)..((i + 1) * n - 1)

\* reshuffle, lines 101-106: no i below k has stopped the scan of board p
ScanGoesOn(m, n, p, k) ==
    \A i \in 0..(k - 1) :
        Cell(p, i) = BLANK \/ (i + 1 <= m * n - 1 /\ Cell(p, i + 1) = BLANK)

\* reshuffle, lines 101-106: the indices the scan reads on board p:
\* puzzle[i], and puzzle[i+1] when puzzle[i] is a tile
ScanReads(m, n, p) ==
    {i \in 0..(m * n - 1) : ScanGoesOn(m, n, p, i)}
        \cup {i + 1 : i \in {x \in 0..(m * n - 1) :
                                ScanGoesOn(m, n, p, x) /\ Cell(p, x) # BLANK}}

\* C21: the indices read by the row check of autosolve (lines 429-434) and by
\* the scan of reshuffle (lines 101-106) lie in 0..M*N-1
C21_IndicesInRange ==
    /\ (pc = "row_check" /\ queue = <<>>)
           => RowCheckReads(N, row_i) \subseteq 0..(M * N - 1)
    /\ pc = "ask_swap" => ScanReads(M, N, puzzle) \subseteq 0..(M * N - 1)

(***************************************************************************)
(* reshuffle on its own: any board, with mark the result of can_solve on   *)
(* it, true or false, and any answer.                                      *)
(***************************************************************************)
ReshuffleInit ==
    /\ \E sh \in Shuffled :
         /\ M = sh[1]
         /\ N = sh[2]
         /\ puzzle = sh[3]
         /\ orig = sh[3]
         /\ mark = can_solve(sh[1], sh[2], sh[3])
    /\ pc = "ask_swap"
    /\ printout = TRUE
    /\ sol = <<>>
    /\ step = 0
    /\ queue = <<>>
    /\ row_i = 0
    /\ col_j = 0
    /\ loops = 0
    /\ start = <<>>
    /\ trace = <<>>
    /\ nmoves = 0
    /\ heads = {}
    /\ rot = 0
    /\ frozen = <<>>
    /\ skipped = 0
    /\ answer = ""
    /\ spin = FALSE
    /\ finisher = {}
    /\ visited = {}
    /\ frontier = {}

ReshuffleNext == Reshuffle

ReshuffleSpec == ReshuffleInit /\ [][ReshuffleNext]_vars

\* C22: after reshuffle was called with mark = true, or was answered n or N,
\* the board is the board it was called on, cell by cell, and the loop has
\* not run; a board that was unsolvable and declined is unsolvable still
C22_ReshuffleKeeps ==
    (pc = "play" /\ answer # "" /\ (mark \/ answer \in {"n", "N"}))
        => /\ puzzle = orig
           /\ loops = 0
           /\ can_solve(M, N, puzzle) = mark

\* reshuffle was called on a solvable 3x2 board, answered y, and left it
C22_Witness ==
    /\ pc = "play"
    /\ answer = "y"
    /\ mark
    /\ M = 3 /\ N = 2
    /\ can_solve(M, N, orig)
    /\ puzzle = orig

\* the log is the end of the sequence of all symbols logged so far
LogIsEndOfTrace ==
    /\ Len(sol) <= Len(trace)
    /\ sol = SubSeq(trace, Len(trace) - Len(sol) + 1, Len(trace))

\* row row_i holds its final values (the check of lines 439-445)
RowChecked == \A k \in 0..(N - 1) : Cell(puzzle, row_i * N + k) = row_i * N + k + 1

\* one step of the program, seen from the log: it is left alone, or it
\* grows at its end by the symbols logged with the move that is made, or it
\* is cleared, at the end of a row whose check passed or before the return
LogStep ==
    /\ \/ sol' = sol
       \/ /\ queue # <<>>
          /\ sol' = sol \o Head(queue).pre \o Head(queue).post
       \/ /\ sol' = <<>>
          /\ queue = <<>>
          /\ (pc = "row_report" /\ RowChecked) \/ pc = "report"
    /\ (pc = "row_report" /\ queue = <<>> /\ RowChecked) => sol' = <<>>
    /\ pc = "report" => sol' = <<>>

\* whenever no routine is at work, the symbols logged so far are the moves
\* made on the board, in order, and the log is the last of them
LogIsMovesMade ==
    (start # <<>> /\ queue = <<>> /\ pc # "oob")
        => /\ LogIsEndOfTrace
           /\ Len(trace) = nmoves
           /\ Replay(M, N, start, trace) = puzzle

\* C23: between two clears the log sol only grows, by the moves made on the
\* board in the order they are made; at the end of a row it is cleared when
\* the check of the whole row passes and only then; it is cleared before
\* autosolve returns, so the vector handed back is empty
C23_LogLifecycle ==
    /\ [][LogStep]_vars
    /\ [](LogIsMovesMade /\ (pc = "done" => sol = <<>>))

\* the check of a row has failed and the row's moves are still in the log
C23_Witness ==
    /\ pc = "rows"
    /\ skipped > 0
    /\ sol # <<>>
    /\ LogIsEndOfTrace
    /\ Replay(M, N, start, trace) = puzzle

(***************************************************************************)
(* append against auto_change, one call for each move                      *)
(***************************************************************************)

MacroCells == 6
MacroLen == 2
MacroLog == 3

MacroGrids == {g \in (2..3) \X (2..3) : g[1] * g[2] <= MacroCells}

\* the move sequences handed to append
RECURSIVE SeqsUpTo(_)
SeqsUpTo(len) ==
    IF len = 0 THEN {<<>>}
    ELSE LET shorter == SeqsUpTo(len - 1)
         IN  shorter \cup {Append(s, c) : s \in {x \in shorter : Len(x) = len - 1}, c \in Moves}

MacroSeqs == SeqsUpTo(MacroLen)

\* auto_change called once for each move of s, from the k-th on
RECURSIVE EachMoveFrom(_, _, _)
EachMoveFrom(st, s, k) ==
    IF k > Len(s) THEN st ELSE EachMoveFrom(auto_change(st, s[k]), s, k + 1)

EachMove(st, s) == EachMoveFrom(st, s, 1)

\* what the requested moves of q put on the log
RECURSIVE Logged(_)
Logged(q) ==
    IF q = <<>> THEN <<>> ELSE Head(q).pre \o Head(q).post \o Logged(Tail(q))

\* any board, an empty log, no routine at work
MacroInit ==
    /\ \E g \in MacroGrids :
         \E b \in AllBoards(g[1], g[2]) :
           /\ M = g[1]
           /\ N = g[2]
           /\ puzzle = b
           /\ start = b
           /\ mark = can_solve(g[1], g[2], b)
    /\ pc = "macro"
    /\ orig = <<>>
    /\ printout = TRUE
    /\ sol = <<>>
    /\ step = 0
    /\ queue = <<>>
    /\ row_i = 0
    /\ col_j = 0
    /\ loops = 0
    /\ trace = <<>>
    /\ nmoves = 0
    /\ heads = {}
    /\ rot = 0
    /\ frozen = <<>>
    /\ skipped = 0
    /\ answer = ""
    /\ spin = FALSE
    /\ finisher = {}
    /\ visited = {}
    /\ frontier = {}

\* append(M, N, puzzle, sol, s)
MacroAppend ==
    /\ pc = "macro"
    /\ queue = <<>>
    /\ \E s \in MacroSeqs :
         /\ Len(sol) + Len(s) <= MacroLog
         /\ s # <<>>
         /\ queue' = append(Work(M, N, puzzle), s).q
    /\ UNCHANGED <<M, N, puzzle, mark, pc, orig, loops, printout, sol, step,
                   row_i, col_j, start, trace, nmoves, heads, rot, frozen,
                   answer, spin, skipped, finisher, reach>>

\* for each move c of s in order: auto_change(M, N, puzzle, c, sol)
MacroMoves ==
    /\ pc = "macro"
    /\ queue = <<>>
    /\ \E s \in MacroSeqs :
         /\ Len(sol) + Len(s) <= MacroLog
         /\ s # <<>>
         /\ queue' = EachMove(Work(M, N, puzzle), s).q
    /\ UNCHANGED <<M, N, puzzle, mark, pc, orig, loops, printout, sol, step,
                   row_i, col_j, start, trace, nmoves, heads, rot, frozen,
                   answer, spin, skipped, finisher, reach>>

MacroNext == MacroAppend \/ MacroMoves \/ Step

MacroSpec == MacroInit /\ [][MacroNext]_vars

\* append and the calls of auto_change end alike on board p
SameEnd(m, n, p, s) ==
    LET a == append(Work(m, n, p), s)
        b == EachMove(Work(m, n, p), s)
    IN  /\ a.ok = b.ok
        /\ a.ok => /\ a.p = b.p
                   /\ a.p = Replay(m, n, p, s)
                   /\ Logged(a.q) = s
                   /\ Logged(b.q) = s
                   /\ Len(a.q) = Len(s)
                   /\ Len(b.q) = Len(s)

\* C24: on every board and after every log, append(s) and one auto_change for
\* each move of s end with the same board, which is the board after the moves
\* of s in order, and put the same symbols on the log, which are those of s in
\* order; when a move of s is out of the grid neither of them ends.  Whatever
\* was called, when no call is at work the log holds the moves made on the
\* board since the start, in order.
C24_MacroEquivalence ==
    (pc = "macro" /\ queue = <<>>)
        => /\ \A s \in MacroSeqs : SameEnd(M, N, puzzle, s)
           /\ sol = trace
           /\ Len(sol) = nmoves
           /\ puzzle = Replay(M, N, start, sol)

\* an append of MacroLen moves is one move from its end: the log has the
\* macro already, and the last move gives the board that the calls of
\* auto_change end with
C24_Witness ==
    /\ pc = "macro"
    /\ Len(queue) = 1
    /\ Head(queue).pre = <<>>
    /\ Head(queue).post = <<>>
    /\ Len(sol) = MacroLog
    /\ nmoves = MacroLog - 1
    /\ Feasible(M, N, puzzle, Head(queue).mv)
    /\ LET s == SubSeq(sol, MacroLog - MacroLen + 1, MacroLog)
           p == Replay(M, N, start, SubSeq(sol, 1, MacroLog - MacroLen))
       IN  /\ s[1] # s[MacroLen]
           /\ EachMove(Work(M, N, p), s).ok
           /\ EachMove(Work(M, N, p), s).p = change(M, N, puzzle, Head(queue).mv)
           /\ EachMove(Work(M, N, p), s).p # p

====
